---- MODULE Spec2Model ----
(***************************************************************************)
(* Vemcache: an in-memory vector store behind a line-based text protocol.  *)
(*                                                                         *)
(* The model follows src/src/vemcache.rs (the store and its numeric        *)
(* operations), src/src/commands.rs (parse_command) and the session loop   *)
(* handle_client of src/src/main.rs, whose per-command branches are the    *)
(* handlers of src/src/handlers.rs.                                        *)
(*                                                                         *)
(* Numbers.  An f32 is modelled by an integer: every value the bounded     *)
(* inputs can produce by parsing, adding, subtracting and scaling is a     *)
(* small integer, which f32 represents exactly.  A square root is modelled *)
(* in thousandths (floor(1000 * sqrt n)), which orders the radicands that  *)
(* occur exactly as the correctly rounded f32 square root does.  The f32   *)
(* NaN is modelled by a number of its own, F32NaN, which no arithmetic on  *)
(* the inputs produces and which every operation propagates.               *)
(*                                                                         *)
(* Text.  A line is modelled after split_whitespace, as its sequence of    *)
(* tokens; a response is the text handed to write_all.                     *)
(***************************************************************************)
EXTENDS Integers, Sequences, FiniteSets, TLC

\* ------------------------------------------------------------------ bounds
\* Most value tokens that follow "insert" or the key of "named_insert".
MaxDim == 2
\* Largest decimal token offered as k of knn and as scalar of vscale.
MaxNum == 2
\* Most tokens that follow the first one of a line offered to parse_command
\* alone.
MaxArgs == 3
\* Most connections that wait at the listener at once.
MaxWaiting == 2

\* ------------------------------------------------------------------ inputs
KeyTokens == {"a", "b"}
ValueTokens == {"0", "1", "x"}
\* Value tokens offered after "insert".
InsertTokens == {"1", "x"}
NumTokens == {ToString(n) : n \in 0..MaxNum} \cup {"x"}
\* Identifiers Uuid::new_v4 can return.
Uuids == {"u1"}

SeqsUpTo(S, n) == UNION {[1..m -> S] : m \in 0..n}

\* The lines a client sends, tokenized.
Lines ==
    {<<>>, <<"ping">>, <<"PING">>, <<"foo">>, <<"insert">>, <<"named_insert">>}
    \cup {<<"insert">> \o vs : vs \in SeqsUpTo(InsertTokens, MaxDim) \ {<<>>}}
    \cup {<<"named_insert", k>> \o vs :
            k \in KeyTokens, vs \in SeqsUpTo(ValueTokens, MaxDim)}
    \cup {<<w>> \o ks :
            w \in {"get", "remove", "vadd", "vsub", "vcosine"},
            ks \in SeqsUpTo(KeyTokens, 2)}
    \cup {<<w>> : w \in {"knn", "vscale"}}
    \cup {<<w, k>> : w \in {"knn", "vscale"}, k \in KeyTokens}
    \cup {<<w, k, n>> : w \in {"knn", "vscale"}, k \in KeyTokens, n \in NumTokens}

\* The eleven command words of parse_command.
CommandWords ==
    {"ping", "insert", "named_insert", "get", "remove", "knn", "vadd", "vsub",
     "vscale", "vcosine", "dump"}
\* First tokens: the command words, spellings of them in other letter cases,
\* and a word that is no command.
WordTokens ==
    CommandWords
    \cup {"PING", "Ping", "INSERT", "Named_Insert", "Get", "REMOVE", "KNN",
          "VAdd", "vSub", "VSCALE", "VCosine", "DUMP", "foo"}
\* Tokens after the first: keys in two letter cases, numbers, a non-number.
ArgTokens == {"a", "A", "1", "-1", "x"}

\* The lines offered to parse_command alone, tokenized.
ParseLines ==
    {<<>>} \cup {<<w>> \o args : w \in WordTokens, args \in SeqsUpTo(ArgTokens, MaxArgs)}
    \cup {<<"insert", "NaN">>, <<"named_insert", "a", "NaN", "1">>,
          <<"vscale", "a", "NaN">>}

\* White space between and around the tokens of a raw line.
Blanks == {"", " ", "  ", "\t"}

\* Lines as read_line returns them, before they are trimmed and split: a
\* command word, a key and a value, each of the two present or not, with
\* any white space between and after them.
RawLines ==
    {w \o b1 \o k \o b2 \o v \o b3 \o "\n" :
        w \in {"named_insert", "insert", "remove", "get"},
        b1 \in Blanks, k \in {"", "k"}, b2 \in Blanks, v \in {"", "1"},
        b3 \in Blanks}

\* char::is_whitespace on the characters of the inputs.
is_whitespace(c) == c \in {" ", "\t", "\n", "\r"}

\* str::trim
RECURSIVE trim(_)
trim(s) ==
    IF s = "" THEN s
    ELSE IF is_whitespace(SubSeq(s, 1, 1)) THEN trim(SubSeq(s, 2, Len(s)))
    ELSE IF is_whitespace(SubSeq(s, Len(s), Len(s))) THEN trim(SubSeq(s, 1, Len(s) - 1))
    ELSE s

\* Split at every white space character, as str::split does: two adjacent
\* ones enclose an empty token.
RECURSIVE SplitEach(_, _, _, _)
SplitEach(s, i, cur, acc) ==
    IF i > Len(s) THEN Append(acc, cur)
    ELSE IF is_whitespace(SubSeq(s, i, i)) THEN SplitEach(s, i + 1, "", Append(acc, cur))
    ELSE SplitEach(s, i + 1, cur \o SubSeq(s, i, i), acc)

\* split_whitespace, had it split at every single white space character.
split_whitespace_AtEach(s) == SplitEach(s, 1, "", <<>>)

\* The tokens from position i on; cur is the token being read.
RECURSIVE SplitFrom(_, _, _, _)
SplitFrom(s, i, cur, acc) ==
    LET done == IF cur = "" THEN acc ELSE Append(acc, cur)
    IN  IF i > Len(s) THEN done
        ELSE IF is_whitespace(SubSeq(s, i, i)) THEN SplitFrom(s, i + 1, "", done)
        ELSE SplitFrom(s, i + 1, cur \o SubSeq(s, i, i), acc)

\* str::split_whitespace().collect(): the maximal runs of characters that
\* are not white space.
split_whitespace(s) == SplitFrom(s, 1, "", <<>>)

\* The raw lines, trimmed and tokenized.
RawCommands == {split_whitespace(trim(raw)) : raw \in RawLines}

\* The first tokens of all lines.
FirstTokens == {l[1] : l \in (Lines \cup ParseLines \cup RawCommands) \ {<<>>}}

\* ------------------------------------------------------------ Option, text
None == [some |-> FALSE]
Some(x) == [some |-> TRUE, val |-> x]

\* The decimal tokens of the inputs and the numbers they denote.
Decimal(s) ==
    CASE s = "0" -> Some(0)
      [] s = "1" -> Some(1)
      [] s = "2" -> Some(2)
      [] s = "3" -> Some(3)
      [] OTHER -> None

\* The f32 NaN.
F32NaN == 999999
is_nan(x) == x = F32NaN

\* str::parse::<f32>: a decimal token, with an optional minus sign, or the
\* word NaN.
ParseF32(s) ==
    IF s = "NaN" THEN Some(F32NaN)
    ELSE IF Len(s) > 1 /\ SubSeq(s, 1, 1) = "-"
    THEN LET d == Decimal(SubSeq(s, 2, Len(s)))
         IN  IF d.some THEN Some(0 - d.val) ELSE None
    ELSE Decimal(s)

\* str::parse::<usize>, had it accepted what parse::<f32> accepts.
ParseUsize_Signed(s) == ParseF32(s)

\* str::parse::<usize>: a decimal token; a minus sign is an error.
ParseUsize(s) == Decimal(s)

\* char::to_lowercase on the letters of the inputs.
LowerChar(c) ==
    CASE c = "A" -> "a" [] c = "B" -> "b" [] c = "C" -> "c" [] c = "D" -> "d"
      [] c = "E" -> "e" [] c = "F" -> "f" [] c = "G" -> "g" [] c = "I" -> "i"
      [] c = "K" -> "k" [] c = "L" -> "l" [] c = "M" -> "m" [] c = "N" -> "n"
      [] c = "O" -> "o" [] c = "P" -> "p" [] c = "R" -> "r" [] c = "S" -> "s"
      [] c = "T" -> "t" [] c = "U" -> "u" [] c = "V" -> "v" [] c = "X" -> "x"
      [] OTHER -> c

RECURSIVE LowerFrom(_, _)
LowerFrom(s, i) ==
    IF i > Len(s) THEN ""
    ELSE LowerChar(SubSeq(s, i, i)) \o LowerFrom(s, i + 1)

\* str::to_lowercase, had it left the word as it is.
to_lowercase_Identity(s) == s

\* The lowercase form of every first token, computed once.
LowerCased == [w \in FirstTokens |-> LowerFrom(w, 1)]

\* str::to_lowercase
to_lowercase(s) == LowerCased[s]

\* {:?} of an f32 holding an integer value or NaN.
DebugF32(x) == IF is_nan(x) THEN "NaN" ELSE ToString(x) \o ".0"

RECURSIVE JoinFrom(_, _, _)
JoinFrom(strs, i, sep) ==
    IF i > Len(strs) THEN ""
    ELSE IF i = Len(strs) THEN strs[i]
    ELSE strs[i] \o sep \o JoinFrom(strs, i + 1, sep)

\* [String]::join
Join(strs, sep) == JoinFrom(strs, 1, sep)

\* {:?} of a Vec<f32>
DebugVec(v) == "[" \o Join([i \in 1..Len(v) |-> DebugF32(v[i])], ", ") \o "]"

\* filter_map, had it kept a zero for each token that does not parse.
filter_map_parse_KeepZero(toks) ==
    [i \in 1..Len(toks) |->
        IF ParseF32(toks[i]).some THEN ParseF32(toks[i]).val ELSE 0]

\* iter().filter_map(|s| s.parse::<f32>().ok()).collect()
RECURSIVE filter_map_parse(_)
filter_map_parse(toks) ==
    IF toks = <<>> THEN <<>>
    ELSE LET p == ParseF32(Head(toks))
         IN  (IF p.some THEN <<p.val>> ELSE <<>>) \o filter_map_parse(Tail(toks))

\* ----------------------------------------------------------- parse_command
Ok(c) == [ok |-> TRUE, cmd |-> c]
\* Err, had it carried no diagnostic.
Err_NoDiagnostic(m) == [ok |-> FALSE, err |-> ""]

Err(m) == [ok |-> FALSE, err |-> m]

\* The vadd, vsub and vcosine branches, had they refused extra tokens.
TwoKeys_NoExtra(tokens, type) ==
    IF Len(tokens) < 2 THEN Err("Missing key1")
    ELSE IF Len(tokens) # 3 THEN Err("Missing key2")
    ELSE Ok([type |-> type, key1 |-> tokens[2], key2 |-> tokens[3]])

\* One or two key arguments, extra tokens ignored (vadd, vsub, vcosine).
TwoKeys(tokens, type) ==
    IF Len(tokens) < 2 THEN Err("Missing key1")
    ELSE IF Len(tokens) < 3 THEN Err("Missing key2")
    ELSE Ok([type |-> type, key1 |-> tokens[2], key2 |-> tokens[3]])

\* The get and remove branches, had they ignored extra tokens.
OneKey_ExtraIgnored(tokens, type, diag) ==
    IF Len(tokens) < 2 THEN Err(diag)
    ELSE Ok([type |-> type, key |-> tokens[2]])

\* Exactly one key argument (get, remove).
OneKey(tokens, type, diag) ==
    IF Len(tokens) # 2 THEN Err(diag)
    ELSE Ok([type |-> type, key |-> tokens[2]])

parse_command(tokens) ==
    IF tokens = <<>> THEN Err("Empty command")
    ELSE LET word == to_lowercase(tokens[1])
             n == Len(tokens)
         IN
         CASE word = "ping" -> Ok([type |-> "Ping"])
           [] word = "insert" ->
                IF n < 2 THEN Err("Invalid INSERT command")
                ELSE Ok([type |-> "Insert",
                         values |-> filter_map_parse(SubSeq(tokens, 2, n))])
           [] word = "named_insert" ->
                IF n < 3 THEN Err("Invalid NAMED_INSERT command")
                ELSE Ok([type |-> "NamedInsert", key |-> tokens[2],
                         values |-> filter_map_parse(SubSeq(tokens, 3, n))])
           [] word = "get" -> OneKey(tokens, "Get", "Invalid GET command")
           [] word = "remove" -> OneKey(tokens, "Remove", "Invalid REMOVE command")
           [] word = "knn" ->
                IF n < 2 THEN Err("Missing key")
                ELSE IF n < 3 THEN Err("Missing k")
                ELSE IF ~ParseUsize(tokens[3]).some THEN Err("Invalid k value")
                ELSE Ok([type |-> "KNearestNeighbors", key |-> tokens[2],
                         k |-> ParseUsize(tokens[3]).val])
           [] word = "vadd" -> TwoKeys(tokens, "VectorAddition")
           [] word = "vsub" -> TwoKeys(tokens, "VectorSubtraction")
           [] word = "vscale" ->
                IF n < 2 THEN Err("Missing key")
                ELSE IF n < 3 THEN Err("Missing scalar")
                ELSE IF ~ParseF32(tokens[3]).some THEN Err("Invalid scalar value")
                ELSE Ok([type |-> "VectorScaling", key |-> tokens[2],
                         scalar |-> ParseF32(tokens[3]).val])
           [] word = "vcosine" -> TwoKeys(tokens, "CosineSimilarity")
           [] word = "dump" ->
                IF n # 2 THEN Err("Invalid DUMP command")
                ELSE Ok([type |-> "Dump", file_path |-> tokens[2]])
           [] OTHER -> Err("Unknown command")

\* ------------------------------------------------------------------- store
\* The HashMap<VectorId, Vector> as its set of entries.
Entry(k, v) == [key |-> k, vector |-> v]
Keys(st) == {e.key : e \in st}

\* HashMap::get
map_get(st, k) ==
    IF \E e \in st : e.key = k
    THEN Some((CHOOSE e \in st : e.key = k).vector)
    ELSE None

\* HashMap::insert: the entry of an equal key is replaced.
map_insert(st, k, v) == {e \in st : e.key # k} \cup {Entry(k, v)}

\* HashMap::remove
map_remove(st, k) == {e \in st : e.key # k}

\* insert_with_key, had it appended the entry instead of replacing it.
insert_with_key_Append(st, key, vector) == st \cup {Entry(key, vector)}

\* Vemcache::insert_with_key
insert_with_key(st, key, vector) == map_insert(st, key, vector)

\* insert_with_uuid, had it stored under a key of its own choice.
insert_with_uuid_FixedKey(st, id, vector) == map_insert(st, "a", vector)

\* Vemcache::insert_with_uuid, with id the identifier Uuid::new_v4 returned.
insert_with_uuid(st, id, vector) == map_insert(st, id, vector)

\* remove, had it left the entry in place.
remove_Keep(st, id) == st

\* Vemcache::remove: the store afterwards; the Option returned is get's.
remove(st, id) == map_remove(st, id)

\* get, had it answered with the vector of any entry.
get_Any(st, id) ==
    IF st # {} THEN Some((CHOOSE e \in st : TRUE).vector) ELSE None

\* Vemcache::get
get(st, id) == map_get(st, id)

\* ----------------------------------------------------------------- numbers
Min(a, b) == IF a < b THEN a ELSE b

\* f32 addition, subtraction and multiplication: NaN if an operand is NaN.
Add(x, y) == IF is_nan(x) \/ is_nan(y) THEN F32NaN ELSE x + y
Sub(x, y) == IF is_nan(x) \/ is_nan(y) THEN F32NaN ELSE x - y
Mul(x, y) == IF is_nan(x) \/ is_nan(y) THEN F32NaN ELSE x * y

\* Sum of f(i) over lo..hi.
RECURSIVE SumOver(_, _, _)
SumOver(f, lo, hi) == IF lo > hi THEN 0 ELSE Add(f[lo], SumOver(f, lo + 1, hi))

\* Iterator::zip stops at the shorter operand.
ZipLen(v1, v2) == Min(Len(v1), Len(v2))

\* f32::sqrt in thousandths: the largest r with r * r <= 1000000 * n.
RECURSIVE SqrtSearch(_, _, _)
SqrtSearch(n, lo, hi) ==
    IF lo >= hi THEN lo
    ELSE LET mid == (lo + hi + 1) \div 2
         IN  IF mid * mid <= 1000000 * n
             THEN SqrtSearch(n, mid, hi)
             ELSE SqrtSearch(n, lo, mid - 1)

sqrt(n) == IF is_nan(n) THEN F32NaN ELSE SqrtSearch(n, 0, 1000 * (n + 1))

\* Vemcache::euclidean_distance
euclidean_distance(v1, v2) ==
    LET m == ZipLen(v1, v2)
    IN  sqrt(SumOver([i \in 1..m |-> Mul(Sub(v1[i], v2[i]), Sub(v1[i], v2[i]))], 1, m))

\* --------------------------------------------------------------------- knn
\* The orders in which HashMap::iter can yield the entries of the store.
IterOrders(st) ==
    {o \in [1..Cardinality(st) -> st] : \A i, j \in DOMAIN o : o[i] = o[j] => i = j}

\* slice::sort_by is stable: x goes behind every element that is not greater.
RECURSIVE InsertByDist(_, _)
InsertByDist(sorted, x) ==
    IF sorted = <<>> THEN <<x>>
    ELSE LET last == sorted[Len(sorted)]
         IN  IF last.dist <= x.dist
             THEN Append(sorted, x)
             ELSE Append(InsertByDist(SubSeq(sorted, 1, Len(sorted) - 1), x), last)

RECURSIVE SortFrom(_, _, _)
SortFrom(s, i, acc) ==
    IF i > Len(s) THEN acc ELSE SortFrom(s, i + 1, InsertByDist(acc, s[i]))

\* sort_by, had the neighbors been left in iteration order.
sort_by_dist_Unsorted(s) == s

\* neighbors.sort_by(|(_, dist1), (_, dist2)| dist1.partial_cmp(dist2).unwrap())
sort_by_dist(s) == SortFrom(s, 1, <<>>)

\* partial_cmp(..).unwrap() panics when an operand is NaN, and sorting two
\* elements or more compares every element with another.
sort_panics(s) == Len(s) >= 2 /\ \E i \in 1..Len(s) : is_nan(s[i].dist)

\* Iterator::take
take(s, k) == SubSeq(s, 1, Min(k, Len(s)))

\* The panic of a thread, in place of a returned value.
Panic == [panic |-> TRUE]
Returned(x) == [panic |-> FALSE, val |-> x]

\* Vemcache::k_nearest_neighbors, with order the order HashMap::iter yields.
k_nearest_neighbors(st, order, query, k) ==
    LET neighbors ==
            [i \in 1..Len(order) |->
                [id |-> order[i].key,
                 dist |-> euclidean_distance(query, order[i].vector)]]
    IN  IF sort_panics(neighbors) THEN Panic
        ELSE LET firstK == take(sort_by_dist(neighbors), k)
             IN  Returned([i \in 1..Len(firstK) |->
                            Entry(firstK[i].id, get(st, firstK[i].id).val)])

\* ---------------------------------------------------------- vector algebra
\* vector_addition without the comparison of the lengths: zip truncates.
vector_addition_NoLengthCheck(st, key1, key2) ==
    LET v1 == get(st, key1)
        v2 == get(st, key2)
    IN  IF ~v1.some THEN None
        ELSE IF ~v2.some THEN None
        ELSE Some([i \in 1..ZipLen(v1.val, v2.val) |-> Add(v1.val[i], v2.val[i])])

\* Vemcache::vector_addition
vector_addition(st, key1, key2) ==
    LET v1 == get(st, key1)
        v2 == get(st, key2)
    IN  IF ~v1.some THEN None
        ELSE IF ~v2.some THEN None
        ELSE IF Len(v1.val) # Len(v2.val) THEN None
        ELSE Some([i \in 1..Len(v1.val) |-> Add(v1.val[i], v2.val[i])])

\* vector_subtraction with minuend and subtrahend exchanged.
vector_subtraction_Swapped(st, key1, key2) ==
    LET v1 == get(st, key1)
        v2 == get(st, key2)
    IN  IF ~v1.some THEN None
        ELSE IF ~v2.some THEN None
        ELSE IF Len(v1.val) # Len(v2.val) THEN None
        ELSE Some([i \in 1..Len(v1.val) |-> Sub(v2.val[i], v1.val[i])])

\* Vemcache::vector_subtraction
vector_subtraction(st, key1, key2) ==
    LET v1 == get(st, key1)
        v2 == get(st, key2)
    IN  IF ~v1.some THEN None
        ELSE IF ~v2.some THEN None
        ELSE IF Len(v1.val) # Len(v2.val) THEN None
        ELSE Some([i \in 1..Len(v1.val) |-> Sub(v1.val[i], v2.val[i])])

\* vector_scaling, had it refused the scalar zero.
vector_scaling_ZeroFails(st, key, scalar) ==
    LET v == get(st, key)
    IN  IF ~v.some \/ scalar = 0 THEN None
        ELSE Some([i \in 1..Len(v.val) |-> Mul(v.val[i], scalar)])

\* Vemcache::vector_scaling
vector_scaling(st, key, scalar) ==
    LET v == get(st, key)
    IN  IF ~v.some THEN None
        ELSE Some([i \in 1..Len(v.val) |-> Mul(v.val[i], scalar)])

Abs(x) == IF x < 0 THEN -x ELSE x

\* floor(sqrt n)
RECURSIVE ISqrtSearch(_, _, _)
ISqrtSearch(n, lo, hi) ==
    IF lo >= hi THEN lo
    ELSE LET mid == (lo + hi + 1) \div 2
         IN  IF mid * mid <= n
             THEN ISqrtSearch(n, mid, hi)
             ELSE ISqrtSearch(n, lo, mid - 1)

\* |dot| / sqrt(p) in ten-thousandths, rounded to nearest, for dot * dot <= p:
\* floor((y + 1) / 2) with y = floor(sqrt(4 * 10^8 * dot^2 / p)).
QuotientE4(dot, p) ==
    LET e == 400000000
        d2 == dot * dot
        y2 == (e \div p) * d2 + ((e % p) * d2) \div p
    IN  (ISqrtSearch(y2, 0, 20000) + 1) \div 2

\* An f32 quotient: NaN, or its value in ten-thousandths.
NaN == [nan |-> TRUE]
Num(e4) == [nan |-> FALSE, e4 |-> e4]

\* Vemcache::cosine_similarity.  A zero magnitude makes the quotient 0.0 / 0.0.
cosine_similarity(v1, v2) ==
    IF Len(v1) # Len(v2) THEN None
    ELSE LET n == Len(v1)
             dot_product == SumOver([i \in 1..n |-> Mul(v1[i], v2[i])], 1, n)
             sq1 == SumOver([i \in 1..n |-> Mul(v1[i], v1[i])], 1, n)
             sq2 == SumOver([i \in 1..n |-> Mul(v2[i], v2[i])], 1, n)
         IN  IF is_nan(dot_product) \/ is_nan(sq1) \/ is_nan(sq2) THEN Some(NaN)
             ELSE IF sq1 * sq2 = 0 THEN Some(NaN)
             ELSE Some(Num((IF dot_product < 0 THEN -1 ELSE 1)
                           * QuotientE4(Abs(dot_product), sq1 * sq2)))

Digit4(n) ==
    ToString(n \div 1000) \o ToString((n \div 100) % 10)
        \o ToString((n \div 10) % 10) \o ToString(n % 10)

\* {:.4} of an f32
Fixed4(x) ==
    IF x.nan THEN "NaN"
    ELSE (IF x.e4 < 0 THEN "-" ELSE "") \o ToString(Abs(x.e4) \div 10000)
            \o "." \o Digit4(Abs(x.e4) % 10000)

\* ------------------------------------------------------------------- state
VARIABLES
    storage,    \* Vemcache.storage, the one store of the process (main's db)
    pc,         \* where main / handle_client stands
    command,    \* handle_client's command, tokenized
    call,       \* the store operation the dispatch invoked, "none" if none
    result,     \* what that operation returned
    response,   \* the text handed to write_all
    peer,       \* the connection being served, as the server's socket sees it:
                \* "open"; "eof", the peer has closed its sending side and
                \* reads return Ok(0); "gone", the connection is broken and
                \* reads and writes fail; "none" while no connection is served
    waiting,    \* connections that have arrived at the listener and are not
                \* accepted yet
    file        \* what the file system holds at the path a dump names

vars == <<storage, pc, command, call, result, response, peer, waiting, file>>

\* No file at the path.
NoFile == [kind |-> "absent"]
\* A file written before the session, whatever it holds.
OldFile == [kind |-> "old"]

\* main: the store is created empty, then the accept loop starts.
Init ==
    /\ storage = {}
    /\ pc = "accept"
    /\ command = <<>>
    /\ call = "none"
    /\ result = None
    /\ response = ""
    /\ peer = "none"
    /\ waiting = 0
    /\ file = NoFile

\* main, had each session started over a new store.
Accept_NewStore ==
    /\ pc = "accept"
    /\ pc' = "top"
    /\ peer' = "open"
    /\ storage' = {}
    /\ UNCHANGED <<command, call, result, response, waiting, file>>

\* main: listener.accept() returns and handle_client is entered.
Accept ==
    /\ pc = "accept"
    /\ pc' = "top"
    /\ peer' = "open"
    /\ UNCHANGED <<storage, command, call, result, response>>
    /\ UNCHANGED <<waiting, file>>

\* handle_client, top of the loop: a new empty command.
LoopTop ==
    /\ pc = "top"
    /\ pc' = "read"
    /\ command' = <<>>
    /\ call' = "none"
    /\ result' = None
    /\ response' = ""
    /\ UNCHANGED <<storage, peer>>
    /\ UNCHANGED <<waiting, file>>

IsInsert(line) == parse_command(line).ok /\ parse_command(line).cmd.type = "Insert"

\* read_line returns a line, which is trimmed.  (An insert is offered only
\* while an unused identifier is left.)
ReadLine ==
    /\ pc = "read"
    /\ peer = "open"
    /\ \E line \in Lines :
        /\ IsInsert(line) => Uuids \ Keys(storage) # {}
        /\ command' = line
    /\ pc' = "dispatch"
    /\ UNCHANGED <<storage, call, result, response, peer>>
    /\ UNCHANGED <<waiting, file>>

\* read_line at the end of the stream returns Ok(0) and leaves command
\* empty: the result is Ok, and the loop goes on to parse the empty command.
ReadEof ==
    /\ pc = "read"
    /\ peer = "eof"
    /\ command' = <<>>
    /\ pc' = "dispatch"
    /\ UNCHANGED <<storage, call, result, response, peer>>
    /\ UNCHANGED <<waiting, file>>

\* read_line fails (a broken connection, or bytes that are not UTF-8):
\* handle_client returns and the stream is dropped.
ReadError ==
    /\ pc = "read"
    /\ peer \in {"open", "gone"}
    /\ pc' = "accept"
    /\ peer' = "none"
    /\ UNCHANGED <<storage, command, call, result, response>>
    /\ UNCHANGED <<waiting, file>>

\* The peer closes its sending side while the session waits for a line.
PeerEof ==
    /\ pc = "read"
    /\ peer = "open"
    /\ peer' = "eof"
    /\ UNCHANGED <<storage, pc, command, call, result, response>>
    /\ UNCHANGED <<waiting, file>>

\* The connection breaks, while the session waits for a line or before it
\* writes its response.
PeerGone ==
    /\ pc \in {"read", "dispatch"}
    /\ peer \in {"open", "eof"}
    /\ peer' = "gone"
    /\ UNCHANGED <<storage, pc, command, call, result, response>>
    /\ UNCHANGED <<waiting, file>>

\* writer.write_all(text): on failure handle_client returns and the stream
\* is dropped.
Respond(text) ==
    /\ response' = text
    /\ IF peer = "gone"
       THEN pc' = "accept" /\ peer' = "none"
       ELSE pc' = "top" /\ peer' = peer

Parsed == parse_command(command)
Dispatching(type) == pc = "dispatch" /\ Parsed.ok /\ Parsed.cmd.type = type

DispatchPing ==
    /\ Dispatching("Ping")
    /\ Respond("pong\n")
    /\ UNCHANGED <<storage, command, call, result>>
    /\ UNCHANGED <<waiting, file>>

DispatchInsert ==
    /\ Dispatching("Insert")
    /\ \E id \in Uuids \ Keys(storage) :
        /\ storage' = insert_with_uuid(storage, id, Parsed.cmd.values)
        /\ result' = Some(id)
    /\ call' = "insert_with_uuid"
    /\ Respond("OK\n")
    /\ UNCHANGED command
    /\ UNCHANGED <<waiting, file>>

\* The named_insert branch, had it written its response before inserting and
\* returned on the failed write with the store as it was.
DispatchNamedInsert_WriteFirst ==
    /\ Dispatching("NamedInsert")
    /\ storage' = IF peer = "gone"
                  THEN storage
                  ELSE insert_with_key(storage, Parsed.cmd.key, Parsed.cmd.values)
    /\ call' = "insert_with_key"
    /\ Respond("OK\n")
    /\ UNCHANGED <<command, result>>
    /\ UNCHANGED <<waiting, file>>

DispatchNamedInsert ==
    /\ Dispatching("NamedInsert")
    /\ storage' = insert_with_key(storage, Parsed.cmd.key, Parsed.cmd.values)
    /\ call' = "insert_with_key"
    /\ Respond("OK\n")
    /\ UNCHANGED <<command, result>>
    /\ UNCHANGED <<waiting, file>>

DispatchGet ==
    /\ Dispatching("Get")
    /\ call' = "get"
    /\ result' = get(storage, Parsed.cmd.key)
    /\ Respond(IF result'.some THEN DebugVec(result'.val) \o "\n" ELSE "null\n")
    /\ UNCHANGED <<storage, command>>
    /\ UNCHANGED <<waiting, file>>

DispatchRemove ==
    /\ Dispatching("Remove")
    /\ call' = "remove"
    /\ result' = get(storage, Parsed.cmd.key)
    /\ storage' = remove(storage, Parsed.cmd.key)
    /\ Respond("OK\n")
    /\ UNCHANGED command
    /\ UNCHANGED <<waiting, file>>

\* "ID: {}, Vector: {:?}" of every neighbor, joined by "\n".
FormatNeighbors(neighbors) ==
    Join([i \in 1..Len(neighbors) |->
            "ID: " \o neighbors[i].key \o ", Vector: " \o DebugVec(neighbors[i].vector)],
         "\n")

\* The knn branch, had it searched with an empty query for an absent key.
DispatchKNearestNeighbors_SearchAnyway ==
    /\ Dispatching("KNearestNeighbors")
    /\ LET query == get(storage, Parsed.cmd.key)
       IN  /\ call' = "k_nearest_neighbors"
           /\ \E order \in IterOrders(storage) :
                result' = Some(k_nearest_neighbors(
                              storage, order,
                              IF query.some THEN query.val ELSE <<>>, Parsed.cmd.k).val)
           /\ Respond(FormatNeighbors(result'.val))
    /\ UNCHANGED <<storage, command>>
    /\ UNCHANGED <<waiting, file>>

DispatchKNearestNeighbors ==
    /\ Dispatching("KNearestNeighbors")
    /\ LET query == get(storage, Parsed.cmd.key)
       IN  IF query.some
           THEN /\ call' = "k_nearest_neighbors"
                /\ \E order \in IterOrders(storage) :
                     \E found \in {k_nearest_neighbors(storage, order,
                                                         query.val, Parsed.cmd.k)} :
                         IF found.panic
                         THEN \* the panic unwinds through handle_client and
                              \* main: the process ends, nothing is written
                              /\ result' = None
                              /\ response' = ""
                              /\ pc' = "aborted"
                              /\ peer' = "none"
                         ELSE /\ result' = Some(found.val)
                              /\ Respond(FormatNeighbors(result'.val))
           ELSE /\ call' = "get"
                /\ result' = None
                /\ Respond("Key not found\n")
    /\ UNCHANGED <<storage, command>>
    /\ UNCHANGED <<waiting, file>>

\* What the file system lets a dump do: all of it; not even create the
\* file; create it and write nothing; create it and write a part.
DumpOutcomes == {"ok", "create_failed", "nothing_written", "part_written"}

\* io::Error, displayed.
IoErrorText(io) ==
    IF io = "create_failed"
    THEN "Permission denied (os error 13)"
    ELSE "No space left on device (os error 28)"

\* The file serde_json::to_writer has written in full.
Snapshot(st) == [kind |-> "snapshot", store |-> st]
\* The file File::create leaves: it exists and is empty.
EmptyFile == [kind |-> "empty"]
\* The file a failed write leaves: the beginning of the JSON text.
PartialFile == [kind |-> "partial"]

\* Vemcache::dump: File::create truncates the path, serde_json::to_writer
\* writes the storage to it; either can fail with an I/O error.
dump(st, before, io) ==
    CASE io = "create_failed" ->
            [result |-> Err(IoErrorText(io)), file |-> before]
      [] io = "nothing_written" ->
            [result |-> Err(IoErrorText(io)), file |-> EmptyFile]
      [] io = "part_written" ->
            [result |-> Err(IoErrorText(io)), file |-> PartialFile]
      [] OTHER ->
            [result |-> [ok |-> TRUE], file |-> Snapshot(st)]

\* handle_dump, had it given up the session when the dump fails.
DispatchDump_ReturnOnError ==
    /\ Dispatching("Dump")
    /\ call' = "dump"
    /\ \E io \in DumpOutcomes :
        LET d == dump(storage, file, io)
        IN  /\ result' = d.result
            /\ file' = d.file
            /\ IF d.result.ok
               THEN Respond("Database dump successful: " \o Parsed.cmd.file_path \o "\n")
               ELSE /\ response' = ""
                    /\ pc' = "accept"
                    /\ peer' = "none"
    /\ UNCHANGED <<storage, command, waiting>>

\* handle_dump
DispatchDump ==
    /\ Dispatching("Dump")
    /\ call' = "dump"
    /\ \E io \in DumpOutcomes :
        LET d == dump(storage, file, io)
        IN  /\ result' = d.result
            /\ file' = d.file
            /\ Respond(IF d.result.ok
                       THEN "Database dump successful: " \o Parsed.cmd.file_path \o "\n"
                       ELSE "Error creating database dump: " \o d.result.err \o "\n")
    /\ UNCHANGED <<storage, command, waiting>>

\* The shape shared by vadd, vsub and vcosine: both keys are looked up, then
\* the operation is invoked.
BothFound(key1, key2) == get(storage, key1).some /\ get(storage, key2).some

DispatchVectorAddition ==
    /\ Dispatching("VectorAddition")
    /\ IF BothFound(Parsed.cmd.key1, Parsed.cmd.key2)
       THEN /\ call' = "vector_addition"
            /\ result' = vector_addition(storage, Parsed.cmd.key1, Parsed.cmd.key2)
            /\ Respond(IF result'.some
                       THEN "Result: " \o DebugVec(result'.val) \o "\n"
                       ELSE "Vectors are not compatible for addition\n")
       ELSE /\ call' = "get"
            /\ result' = None
            /\ Respond("One or both keys not found\n")
    /\ UNCHANGED <<storage, command>>
    /\ UNCHANGED <<waiting, file>>

DispatchVectorSubtraction ==
    /\ Dispatching("VectorSubtraction")
    /\ IF BothFound(Parsed.cmd.key1, Parsed.cmd.key2)
       THEN /\ call' = "vector_subtraction"
            /\ result' = vector_subtraction(storage, Parsed.cmd.key1, Parsed.cmd.key2)
            /\ Respond(IF result'.some
                       THEN "Result: " \o DebugVec(result'.val) \o "\n"
                       ELSE "Vectors are not compatible for subtraction\n")
       ELSE /\ call' = "get"
            /\ result' = None
            /\ Respond("One or both keys not found\n")
    /\ UNCHANGED <<storage, command>>
    /\ UNCHANGED <<waiting, file>>

\* The vscale branch, had it scaled the stored vector in place.
DispatchVectorScaling_InPlace ==
    /\ Dispatching("VectorScaling")
    /\ IF get(storage, Parsed.cmd.key).some
       THEN /\ call' = "vector_scaling"
            /\ result' = vector_scaling(storage, Parsed.cmd.key, Parsed.cmd.scalar)
            /\ storage' = map_insert(storage, Parsed.cmd.key, result'.val)
            /\ Respond("Result: " \o DebugVec(result'.val) \o "\n")
       ELSE /\ call' = "get"
            /\ result' = None
            /\ storage' = storage
            /\ Respond("Key not found\n")
    /\ UNCHANGED command
    /\ UNCHANGED <<waiting, file>>

DispatchVectorScaling ==
    /\ Dispatching("VectorScaling")
    /\ IF get(storage, Parsed.cmd.key).some
       THEN /\ call' = "vector_scaling"
            /\ result' = vector_scaling(storage, Parsed.cmd.key, Parsed.cmd.scalar)
            /\ Respond(IF result'.some
                       THEN "Result: " \o DebugVec(result'.val) \o "\n"
                       ELSE "Error: Vector scaling failed\n")
       ELSE /\ call' = "get"
            /\ result' = None
            /\ Respond("Key not found\n")
    /\ UNCHANGED <<storage, command>>
    /\ UNCHANGED <<waiting, file>>

DispatchCosineSimilarity ==
    /\ Dispatching("CosineSimilarity")
    /\ IF BothFound(Parsed.cmd.key1, Parsed.cmd.key2)
       THEN /\ call' = "cosine_similarity"
            /\ result' = cosine_similarity(get(storage, Parsed.cmd.key1).val,
                                           get(storage, Parsed.cmd.key2).val)
            /\ Respond(IF result'.some
                       THEN "Cosine Similarity: " \o Fixed4(result'.val) \o "\n"
                       ELSE "Vectors are not compatible for cosine similarity\n")
       ELSE /\ call' = "get"
            /\ result' = None
            /\ Respond("One or both keys not found\n")
    /\ UNCHANGED <<storage, command>>
    /\ UNCHANGED <<waiting, file>>

\* The Err arm, had it ended the session after sending the diagnostic.
DispatchError_Return ==
    /\ pc = "dispatch"
    /\ ~Parsed.ok
    /\ response' = "Error: " \o Parsed.err \o "\n"
    /\ pc' = "accept"
    /\ peer' = "none"
    /\ UNCHANGED <<storage, command, call, result>>
    /\ UNCHANGED <<waiting, file>>

\* Err(error_msg): the diagnostic is sent back.
DispatchError ==
    /\ pc = "dispatch"
    /\ ~Parsed.ok
    /\ Respond("Error: " \o Parsed.err \o "\n")
    /\ UNCHANGED <<storage, command, call, result>>
    /\ UNCHANGED <<waiting, file>>

Next ==
    \/ Accept
    \/ LoopTop
    \/ ReadLine
    \/ ReadEof
    \/ ReadError
    \/ PeerEof
    \/ PeerGone
    \/ DispatchPing
    \/ DispatchInsert
    \/ DispatchNamedInsert
    \/ DispatchGet
    \/ DispatchRemove
    \/ DispatchKNearestNeighbors
    \/ DispatchVectorAddition
    \/ DispatchVectorSubtraction
    \/ DispatchVectorScaling
    \/ DispatchCosineSimilarity
    \/ DispatchError

Spec == Init /\ [][Next]_vars

\* ------------------------------------------- connections at the listener
\* The lines the clients send while connections queue at the listener.
ConnLines ==
    {<<"ping">>, <<"named_insert", "a", "1">>, <<"get", "a">>, <<"remove", "a">>}

\* A client connects: the connection waits in the listener's queue.
Arrive ==
    /\ waiting < MaxWaiting
    /\ waiting' = waiting + 1
    /\ UNCHANGED <<storage, pc, command, call, result, response, peer, file>>

\* main, had it accepted a waiting connection while a session is running (a
\* session spawned for each connection).
AcceptQueued_Spawned ==
    /\ waiting > 0
    /\ waiting' = waiting - 1
    /\ pc' = "top"
    /\ peer' = "open"
    /\ UNCHANGED <<storage, command, call, result, response, file>>

\* main: listener.accept() takes a waiting connection and handle_client is
\* entered; main reaches accept() again only when handle_client has returned.
AcceptQueued ==
    /\ pc = "accept"
    /\ waiting > 0
    /\ waiting' = waiting - 1
    /\ pc' = "top"
    /\ peer' = "open"
    /\ UNCHANGED <<storage, command, call, result, response, file>>

\* read_line returns a line, which is trimmed.
ReadConnLine ==
    /\ pc = "read"
    /\ peer = "open"
    /\ \E line \in ConnLines : command' = line
    /\ pc' = "dispatch"
    /\ UNCHANGED <<storage, call, result, response, peer, waiting, file>>

NextConn ==
    \/ Arrive
    \/ AcceptQueued
    \/ LoopTop
    \/ ReadConnLine
    \/ ReadEof
    \/ ReadError
    \/ PeerEof
    \/ PeerGone
    \/ DispatchPing
    \/ DispatchNamedInsert
    \/ DispatchGet
    \/ DispatchRemove
    \/ DispatchError

SpecConn == Init /\ [][NextConn]_vars

\* The steps the server takes on its own: the runtime keeps running main and
\* the session, and a read on a closed or broken connection returns.
ServerStep ==
    \/ AcceptQueued
    \/ LoopTop
    \/ ReadEof
    \/ peer = "gone" /\ ReadError
    \/ DispatchPing
    \/ DispatchNamedInsert
    \/ DispatchGet
    \/ DispatchRemove
    \/ DispatchError

\* The peer of the session closes its side or its connection breaks.
PeerLeaves == peer = "open" /\ (PeerEof \/ PeerGone)

\* The server keeps running, and the peer of every session leaves in the end.
SpecLive ==
    /\ Init
    /\ [][NextConn]_vars
    /\ WF_vars(ServerStep)
    /\ SF_vars(PeerLeaves)

\* ------------------------------------------------- one line, parsed alone
\* Stores a session can have built before the line arrives.
SampleStores ==
    {{},
     {Entry("a", <<1>>)},
     {Entry("a", <<1>>), Entry("A", <<0>>)},
     {Entry("a", <<F32NaN>>)},
     {Entry("a", <<1>>), Entry("A", <<F32NaN>>)}}

\* A session waiting for a line, over one of the sample stores.
InitLine ==
    /\ storage \in SampleStores
    /\ pc = "read"
    /\ command = <<>>
    /\ call = "none"
    /\ result = None
    /\ response = ""
    /\ peer = "open"
    /\ waiting = 0
    /\ file = OldFile

\* read_line and trim, the line drawn from the lines offered to
\* parse_command alone.
ReadParseLine ==
    /\ pc = "read"
    /\ peer = "open"
    /\ \E line \in ParseLines :
        /\ IsInsert(line) => Uuids \ Keys(storage) # {}
        /\ command' = line
    /\ pc' = "dispatch"
    /\ UNCHANGED <<storage, call, result, response, peer, waiting, file>>

\* read_line returns a raw line; it is trimmed, and parse_command splits it.
ReadRawLine ==
    /\ pc = "read"
    /\ peer = "open"
    /\ \E raw \in RawLines :
        LET line == split_whitespace(trim(raw))
        IN  /\ IsInsert(line) => Uuids \ Keys(storage) # {}
            /\ command' = line
    /\ pc' = "dispatch"
    /\ UNCHANGED <<storage, call, result, response, peer, waiting, file>>

\* One iteration of the loop of handle_client: the line is read, parsed and
\* dispatched.
NextLine ==
    \/ ReadParseLine
    \/ ReadRawLine
    \/ DispatchPing
    \/ DispatchInsert
    \/ DispatchNamedInsert
    \/ DispatchGet
    \/ DispatchRemove
    \/ DispatchKNearestNeighbors
    \/ DispatchVectorAddition
    \/ DispatchVectorSubtraction
    \/ DispatchVectorScaling
    \/ DispatchCosineSimilarity
    \/ DispatchDump
    \/ DispatchError

SpecLine == InitLine /\ [][NextLine]_vars

\* ------------------------------------------------------------------ claims
\* The vectors an entry set holds under key k.
VectorsOf(st, k) == {e.vector : e \in {x \in st : x.key = k}}
\* The entries of an entry set under keys other than k.
Others(st, k) == {e \in st : e.key # k}
\* The iteration of handle_client that dispatched the command has ended.
Dispatched == pc \in {"top", "accept"} /\ command # <<>>
DispatchedType(type) == Dispatched /\ Parsed.ok /\ Parsed.cmd.type = type

\* The step in which the handler of a command of this type runs: the session
\* leaves "dispatch" (the connection may break before, with the command still
\* waiting to be handled).
Handles(type) == Dispatching(type) /\ pc' # "dispatch"

\* C1: in every state each key maps to exactly one vector; a named_insert of
\* k with v leaves k mapped to v and nothing else, grows the number of
\* entries by one if k was absent and by zero if it was present, and changes
\* the vector of no other key.
C1_UniqueKeys == \A k \in Keys(storage) : Cardinality(VectorsOf(storage, k)) = 1

C1_InsertStep ==
    Handles("NamedInsert") =>
        LET k == Parsed.cmd.key
            v == Parsed.cmd.values
        IN  /\ VectorsOf(storage', k) = {v}
            /\ Cardinality(storage') =
                 Cardinality(storage) + (IF k \in Keys(storage) THEN 0 ELSE 1)
            /\ Others(storage', k) = Others(storage, k)

C1_NamedInsertReplaces == [](C1_UniqueKeys) /\ [][C1_InsertStep]_vars

\* A named_insert has replaced the vector of a key among three entries.
C1_Witness ==
    /\ DispatchedType("NamedInsert")
    /\ command = <<"named_insert", "a", "x", "1">>
    /\ storage = {Entry("a", <<1>>), Entry("b", <<0, 1>>), Entry("u1", <<1>>)}

\* C2: after named_insert(k, v) a get(k) returns exactly v, and goes on
\* returning v until a named_insert or a remove of k: the named_insert leaves
\* v under k, no step other than a named_insert or remove of k changes what
\* is stored under k, and a get answers with what is stored under its key.
C2_Establish ==
    Handles("NamedInsert") =>
        VectorsOf(storage', Parsed.cmd.key) = {Parsed.cmd.values}

C2_Preserve ==
    \A k \in KeyTokens \cup Uuids :
        VectorsOf(storage', k) # VectorsOf(storage, k) =>
            \/ Dispatching("NamedInsert") /\ Parsed.cmd.key = k
            \/ Dispatching("Remove") /\ Parsed.cmd.key = k
            \/ Dispatching("Insert") /\ k \notin Keys(storage)

C2_Observe ==
    DispatchedType("Get") =>
        \A v \in VectorsOf(storage, Parsed.cmd.key) :
            /\ result = Some(v)
            /\ response = DebugVec(v) \o "\n"

C2_InsertThenGet == [][C2_Establish /\ C2_Preserve]_vars /\ [](C2_Observe)

\* A get has answered with the two-element vector named_insert stored.
C2_Witness ==
    /\ DispatchedType("Get")
    /\ Parsed.cmd.key = "a"
    /\ Entry("a", <<1, 0>>) \in storage
    /\ response = "[1.0, 0.0]\n"

\* C3: remove(k) of a present key returns the stored vector and deletes that
\* entry only; of an absent key it returns not-found and changes nothing;
\* after it k is absent, and a get of an absent key answers not-found.
C3_RemoveStep ==
    Handles("Remove") =>
        LET k == Parsed.cmd.key
        IN  /\ k \notin Keys(storage')
            /\ Others(storage', k) = Others(storage, k)
            /\ \A v \in VectorsOf(storage, k) :
                 result' = Some(v) /\ storage' = storage \ {Entry(k, v)}
            /\ k \notin Keys(storage) => result' = None /\ storage' = storage

C3_GetAbsent ==
    DispatchedType("Get") /\ Parsed.cmd.key \notin Keys(storage) =>
        result = None /\ response = "null\n"

C3_RemoveThenGet == [][C3_RemoveStep]_vars /\ [](C3_GetAbsent)

\* A remove has returned the vector of a present key and left another entry.
C3_Witness ==
    /\ DispatchedType("Remove")
    /\ Parsed.cmd.key = "a"
    /\ result = Some(<<0, 1>>)
    /\ storage = {Entry("b", <<1>>)}

\* C4: get, knn, vadd, vsub, vscale and vcosine leave the store as it is,
\* whatever their outcome; a step that changes the store is the dispatch of
\* an insert, a named_insert or a remove.
ReadTypes ==
    {"Get", "KNearestNeighbors", "VectorAddition", "VectorSubtraction",
     "VectorScaling", "CosineSimilarity"}

C4_Step ==
    /\ (\E t \in ReadTypes : Handles(t)) => storage' = storage
    /\ storage' # storage =>
         \E t \in {"Insert", "NamedInsert", "Remove"} : Dispatching(t)

C4_ReadsLeaveStore == [][C4_Step]_vars

\* A vscale has produced a scaled vector while the store keeps the original.
C4_Witness ==
    /\ DispatchedType("VectorScaling")
    /\ result = Some(<<2, 0>>)
    /\ Entry(Parsed.cmd.key, <<1, 0>>) \in storage

\* The knn whose result the state holds, and its query vector.
KnnAnswered == DispatchedType("KNearestNeighbors") /\ call = "k_nearest_neighbors"
RangeOf(s) == {s[i] : i \in DOMAIN s}

\* C5: k_nearest_neighbors considers only the stored vectors as long as the
\* query: no stored vector of another length appears in its result.
C5_OnlySameLength ==
    KnnAnswered =>
        \A q \in VectorsOf(storage, Parsed.cmd.key) :
            \A e \in RangeOf(result.val) : Len(e.vector) = Len(q)

C7_ResultLength ==
    KnnAnswered =>
        \A q \in VectorsOf(storage, Parsed.cmd.key) :
            LET r == result.val
                eligible == {e \in storage : Len(e.vector) = Len(q)}
            IN  /\ Len(r) = Min(Parsed.cmd.k, Cardinality(eligible))
                /\ \A i, j \in DOMAIN r : r[i].key = r[j].key => i = j

\* C8: a knn whose key is absent answers "Key not found", runs no neighbor
\* search and leaves the store unchanged; a knn whose key is present runs
\* the search and answers with the neighbor entries, never "Key not found".
C8_Step ==
    Handles("KNearestNeighbors") =>
        IF Parsed.cmd.key \notin Keys(storage)
        THEN /\ response' = "Key not found\n"
             /\ call' # "k_nearest_neighbors"
             /\ result' = None
             /\ storage' = storage
        ELSE /\ call' = "k_nearest_neighbors"
             /\ result'.some
             /\ response' = FormatNeighbors(result'.val)
             /\ response' # "Key not found\n"

C8_KnnAbsentKey == [][C8_Step]_vars

\* A knn on an absent key has answered "Key not found" over a store that
\* holds other entries.
C8_Witness ==
    /\ DispatchedType("KNearestNeighbors")
    /\ Parsed.cmd.key = "b"
    /\ Keys(storage) = {"a", "u1"}
    /\ call = "get"
    /\ response = "Key not found\n"

\* C9: vadd answers "One or both keys not found" if either key is absent;
\* else "Vectors are not compatible for addition" if the lengths differ; else
\* "Result:" with the element-wise sum.
C9_Step ==
    Handles("VectorAddition") =>
        LET k1 == Parsed.cmd.key1
            k2 == Parsed.cmd.key2
        IN  IF k1 \notin Keys(storage) \/ k2 \notin Keys(storage)
            THEN response' = "One or both keys not found\n"
            ELSE \A v1 \in VectorsOf(storage, k1), v2 \in VectorsOf(storage, k2) :
                    IF Len(v1) # Len(v2)
                    THEN response' = "Vectors are not compatible for addition\n"
                    ELSE LET sum == [i \in 1..Len(v1) |-> v1[i] + v2[i]]
                         IN  /\ result' = Some(sum)
                             /\ response' = "Result: " \o DebugVec(sum) \o "\n"

C9_VaddOutcomes == [][C9_Step]_vars

\* A vadd of two present vectors of different lengths has been refused.
C9_Witness ==
    /\ DispatchedType("VectorAddition")
    /\ Entry(Parsed.cmd.key1, <<1>>) \in storage
    /\ Entry(Parsed.cmd.key2, <<1, 0>>) \in storage
    /\ response = "Vectors are not compatible for addition\n"

\* C10: vsub of two present vectors of equal length answers the element-wise
\* difference v1 - v2, key1's vector being the minuend, and exchanging the
\* keys negates every element; an absent key and a difference of lengths
\* are answered as by vadd.
C10_Step ==
    Handles("VectorSubtraction") =>
        LET k1 == Parsed.cmd.key1
            k2 == Parsed.cmd.key2
        IN  IF k1 \notin Keys(storage) \/ k2 \notin Keys(storage)
            THEN response' = "One or both keys not found\n"
            ELSE \A v1 \in VectorsOf(storage, k1), v2 \in VectorsOf(storage, k2) :
                    IF Len(v1) # Len(v2)
                    THEN /\ response' = "Vectors are not compatible for subtraction\n"
                         /\ ~vector_addition(storage, k1, k2).some
                    ELSE LET diff == [i \in 1..Len(v1) |-> v1[i] - v2[i]]
                         IN  /\ result' = Some(diff)
                             /\ response' = "Result: " \o DebugVec(diff) \o "\n"
                             /\ vector_subtraction(storage, k2, k1) =
                                  Some([i \in 1..Len(v1) |-> 0 - diff[i]])
                             /\ vector_addition(storage, k1, k2).some

C10_VsubOrder == [][C10_Step]_vars

\* A vsub has answered a difference with a negative and a positive element.
C10_Witness ==
    /\ DispatchedType("VectorSubtraction")
    /\ command = <<"vsub", "a", "b">>
    /\ result = Some(<<-1, 1>>)
    /\ response = "Result: [-1.0, 1.0]\n"

\* C11: vscale of an absent key answers "Key not found"; vscale of a present
\* key always answers "Result:" with a vector as long as the stored one, each
\* element the stored element times the scalar, and never a failure message.
C11_Step ==
    Handles("VectorScaling") =>
        LET k == Parsed.cmd.key
            s == Parsed.cmd.scalar
        IN  IF VectorsOf(storage, k) = {}
            THEN response' = "Key not found\n"
            ELSE \E v \in VectorsOf(storage, k) :
                    /\ result'.some
                    /\ Len(result'.val) = Len(v)
                    /\ \A i \in 1..Len(v) : result'.val[i] = v[i] * s
                    /\ response' = "Result: " \o DebugVec(result'.val) \o "\n"

C11_VscaleOutcomes == [][C11_Step]_vars

\* A vscale by 2 has answered with the doubled vector.
C11_Witness ==
    /\ DispatchedType("VectorScaling")
    /\ command = <<"vscale", "a", "2">>
    /\ VectorsOf(storage, "a") = {<<1, 0>>}
    /\ response = "Result: [2.0, 0.0]\n"

StartsWith(s, p) == Len(s) >= Len(p) /\ SubSeq(s, 1, Len(p)) = p
EndsWith(s, p) == Len(s) >= Len(p) /\ SubSeq(s, Len(s) - Len(p) + 1, Len(s)) = p

\* Magnitude exactly zero: every element is zero (the empty vector included).
ZeroMagnitude(v) == \A i \in 1..Len(v) : v[i] = 0

\* C12: vcosine of two stored vectors of equal length, at least one of them of
\* magnitude zero, yields no numeric result and does not answer
\* "Cosine Similarity:".
C12_ZeroMagnitudeSignalled ==
    DispatchedType("CosineSimilarity") =>
        \A v1 \in VectorsOf(storage, Parsed.cmd.key1),
           v2 \in VectorsOf(storage, Parsed.cmd.key2) :
            (Len(v1) = Len(v2) /\ (ZeroMagnitude(v1) \/ ZeroMagnitude(v2))) =>
                /\ ~result.some
                /\ ~StartsWith(response, "Cosine Similarity:")

\* ------------------------------------------------------------ claims, parse
\* The command word each first token of the inputs spells, letter case aside.
WordOf ==
    [w \in CommandWords |-> w]
    @@ ("PING" :> "ping" @@ "Ping" :> "ping" @@ "INSERT" :> "insert"
        @@ "Named_Insert" :> "named_insert" @@ "Get" :> "get"
        @@ "REMOVE" :> "remove" @@ "KNN" :> "knn" @@ "VAdd" :> "vadd"
        @@ "vSub" :> "vsub" @@ "VSCALE" :> "vscale" @@ "VCosine" :> "vcosine"
        @@ "DUMP" :> "dump")

\* The first token of the command spells this command word.
Spells(w) ==
    /\ command # <<>>
    /\ command[1] \in DOMAIN WordOf
    /\ WordOf[command[1]] = w

CommandTypes ==
    {"Ping", "Insert", "NamedInsert", "Get", "Remove", "KNearestNeighbors",
     "VectorAddition", "VectorSubtraction", "VectorScaling",
     "CosineSimilarity", "Dump"}

Diagnostics ==
    {"Empty command", "Unknown command", "Invalid INSERT command",
     "Invalid NAMED_INSERT command", "Invalid GET command",
     "Invalid REMOVE command", "Invalid DUMP command", "Missing key",
     "Missing k", "Invalid k value", "Missing key1", "Missing key2",
     "Missing scalar", "Invalid scalar value"}

\* A line has been read and handed to parse_command.
LineRead == pc # "read"

\* C13: parse_command answers every line with a command or with an error
\* carrying a diagnostic; the line without tokens gets "Empty command" and a
\* line whose first token spells none of the eleven command words gets
\* "Unknown command".
C13_ParseTotal ==
    LineRead =>
        /\ \/ Parsed.ok /\ Parsed.cmd.type \in CommandTypes
           \/ ~Parsed.ok /\ Parsed.err \in Diagnostics
        /\ command = <<>> => ~Parsed.ok /\ Parsed.err = "Empty command"
        /\ (command # <<>> /\ command[1] \notin DOMAIN WordOf) =>
                ~Parsed.ok /\ Parsed.err = "Unknown command"
        /\ (pc = "top" /\ ~Parsed.ok) =>
                response = "Error: " \o Parsed.err \o "\n"

\* A line whose first token is no command word has been answered.
C13_Witness ==
    /\ pc = "top"
    /\ command = <<"foo", "a", "1">>
    /\ response = "Error: Unknown command\n"

\* The first token spells get, remove or dump.
OneArgumentWord == Spells("get") \/ Spells("remove") \/ Spells("dump")

\* C14: a get, remove or dump line parses to its command, carrying the
\* second token, if and only if it has exactly two tokens; otherwise it is
\* answered with an error, no store operation is called and the store stays
\* as it is.
C14_Parse ==
    (LineRead /\ OneArgumentWord) =>
        /\ Parsed.ok <=> Len(command) = 2
        /\ Parsed.ok =>
            /\ Spells("get") => Parsed.cmd = [type |-> "Get", key |-> command[2]]
            /\ Spells("remove") => Parsed.cmd = [type |-> "Remove", key |-> command[2]]
            /\ Spells("dump") => Parsed.cmd = [type |-> "Dump", file_path |-> command[2]]
        /\ (pc = "top" /\ Len(command) # 2) =>
            /\ call = "none"
            /\ StartsWith(response, "Error: Invalid ")

C14_Step ==
    (pc = "dispatch" /\ OneArgumentWord /\ Len(command) # 2) => storage' = storage

C14_ExactlyOneArgument == [](C14_Parse) /\ [][C14_Step]_vars

\* A get with an extra token has been refused over a store holding the key.
C14_Witness ==
    /\ pc = "top"
    /\ command = <<"get", "a", "A">>
    /\ VectorsOf(storage, "a") # {}
    /\ call = "none"
    /\ response = "Error: Invalid GET command\n"

\* The argument tokens that are floats, and their values.
FloatValue == ("1" :> 1) @@ ("-1" :> (0 - 1)) @@ ("NaN" :> F32NaN)
IsFloat(t) == t \in DOMAIN FloatValue

\* The values of the float tokens of a sequence, in their order.
Floats(toks) ==
    LET kept == SelectSeq(toks, IsFloat)
    IN  [j \in 1..Len(kept) |-> FloatValue[kept[j]]]

\* C15: an insert or named_insert line is parsed to a command exactly when a
\* value token follows the command word (insert) or the key (named_insert);
\* the vector of the command is the subsequence of the value tokens that are
\* floats, in their order, and it is the vector stored.
C15_FloatSubsequence ==
    (LineRead /\ (Spells("insert") \/ Spells("named_insert"))) =>
        LET skip == IF Spells("insert") THEN 1 ELSE 2
            vector == Floats(SubSeq(command, skip + 1, Len(command)))
        IN  /\ Parsed.ok <=> Len(command) > skip
            /\ Parsed.ok => Parsed.cmd.values = vector
            /\ (pc = "top" /\ Parsed.ok) =>
                IF Spells("insert")
                THEN \E id \in Uuids : VectorsOf(storage, id) = {vector}
                ELSE VectorsOf(storage, command[2]) = {vector}

\* An insert has dropped the token between two floats and kept their order.
C15_Witness ==
    /\ pc = "top"
    /\ command = <<"insert", "-1", "x", "1">>
    /\ VectorsOf(storage, "u1") = {<<0 - 1, 1>>}
    /\ response = "OK\n"

\* The argument tokens that are non-negative integers.
IsCount(t) == t \in {"1"}

\* The first token spells a command of two arguments.
TwoArgumentWord ==
    \/ Spells("knn") \/ Spells("vadd") \/ Spells("vsub")
    \/ Spells("vscale") \/ Spells("vcosine")

\* The line lacks its first or second argument, or its knn count is no
\* non-negative integer, or its vscale scalar is no float.
Malformed ==
    \/ Len(command) < 3
    \/ Spells("knn") /\ ~IsCount(command[3])
    \/ Spells("vscale") /\ ~IsFloat(command[3])

\* C16: a knn, vadd, vsub, vscale or vcosine line that lacks an argument, a
\* knn line whose k is not a non-negative integer and a vscale line whose
\* scalar is not a float are answered with an error; no store operation is
\* called and the store stays as it is.
C16_Parse ==
    (LineRead /\ TwoArgumentWord /\ Malformed) =>
        /\ ~Parsed.ok
        /\ pc = "top" =>
            /\ call = "none"
            /\ result = None
            /\ response = "Error: " \o Parsed.err \o "\n"

C16_Step ==
    (pc = "dispatch" /\ TwoArgumentWord /\ Malformed) => storage' = storage

C16_MalformedArguments == [](C16_Parse) /\ [][C16_Step]_vars

\* A knn with a negative k has been refused over a store holding the key.
C16_Witness ==
    /\ pc = "top"
    /\ command = <<"knn", "a", "-1">>
    /\ VectorsOf(storage, "a") # {}
    /\ call = "none"
    /\ response = "Error: Invalid k value\n"

\* The two spellings of a key that differ in letter case only.
CaseKeys == {"a", "A"}

\* C17: a line parses to the same result whatever the letter case of its
\* first token, and a key is taken as written: a get answers for the entry
\* of exactly its key token, and a command whose key token differs from a
\* key, be it in letter case only, leaves the entry of that key as it is.
C17_Parse ==
    (LineRead /\ command # <<>> /\ command[1] \in DOMAIN WordOf) =>
        /\ Parsed = parse_command(<<WordOf[command[1]]>> \o Tail(command))
        /\ (Parsed.ok /\ "key" \in DOMAIN Parsed.cmd) => Parsed.cmd.key = command[2]
        /\ (pc = "top" /\ Spells("get") /\ Len(command) = 2) =>
            (response = "null\n" <=> VectorsOf(storage, command[2]) = {})

C17_Step ==
    \A k \in CaseKeys :
        (pc = "dispatch" /\ pc' = "top" /\ (Len(command) < 2 \/ command[2] # k)) =>
            VectorsOf(storage', k) = VectorsOf(storage, k)

C17_CaseOfWordAndKey == [](C17_Parse) /\ [][C17_Step]_vars

\* A named_insert spelled in mixed case has stored under "A" beside "a".
C17_Witness ==
    /\ pc = "top"
    /\ command = <<"Named_Insert", "A", "-1">>
    /\ VectorsOf(storage, "a") = {<<1>>}
    /\ VectorsOf(storage, "A") = {<<0 - 1>>}
    /\ response = "OK\n"

\* ---------------------------------------------------------- claims, session
\* C18: a line that does not parse is answered with one line, "Error: " and
\* the diagnostic; the store stays as it is; unless the write fails the
\* session stays on the same connection, and it returns to read_line with a
\* fresh command buffer, where every line is accepted as after any other
\* command.
C18_Step ==
    /\ (pc = "dispatch" /\ ~Parsed.ok /\ pc' # "dispatch") =>
            /\ response' = "Error: " \o Parsed.err \o "\n"
            /\ storage' = storage
            /\ call' = "none"
            /\ peer # "gone" => (pc' = "top" /\ peer' = peer)
    /\ (pc = "top" /\ ~Parsed.ok /\ pc' # "top") =>
            /\ pc' = "read"
            /\ command' = <<>>
            /\ response' = ""
            /\ storage' = storage
            /\ peer' = peer

C18_ParseErrorRecoverable == [][C18_Step]_vars

\* A get without key has been refused on an open connection whose store
\* holds entries; the session is back at the top of its loop.
C18_Witness ==
    /\ pc = "top"
    /\ peer = "open"
    /\ command = <<"get">>
    /\ response = "Error: Invalid GET command\n"
    /\ Cardinality(storage) = 2

\* C19: each line read is answered, before the next read, by one response
\* that is not empty and ends with a line break, whatever the command.
C19_Step ==
    (pc = "dispatch" /\ pc' = "top") =>
        /\ response' # ""
        /\ EndsWith(response', "\n")

C19_Framing == [][C19_Step]_vars

\* C20: a read that fails ends the session, the read at the end of the
\* stream of a peer that has closed included: the read is followed by the
\* return of handle_client and by no dispatch.
C20_Step ==
    (pc = "read" /\ peer \in {"eof", "gone"} /\ pc' # "read") => pc' = "accept"

C20_ReadFailureEndsSession == [][C20_Step]_vars

\* ------------------------------------------------------ claims, connections
\* C21: a connection is accepted only while no session is running, so one
\* connection at most is served at any instant: main stands in a session
\* exactly while a connection is attached, and every step that takes a
\* connection from the listener starts from main's accept with none attached.
C21_InSession == (pc \in {"top", "read", "dispatch"}) <=> (peer # "none")

C21_Step == (waiting' < waiting) => (pc = "accept" /\ peer = "none" /\ pc' = "top")

C21_OneConnectionAtATime == [](C21_InSession) /\ [][C21_Step]_vars

\* A session is under way, its store not empty, while two connections wait.
C21_Witness ==
    /\ pc = "dispatch"
    /\ peer = "open"
    /\ waiting = MaxWaiting
    /\ storage # {}

\* C22: while the server keeps running and the peer of every session leaves
\* in the end, a connection waiting at a full listener queue is eventually
\* accepted.
C22_EventuallyAccepted == (waiting = MaxWaiting) ~> (waiting < MaxWaiting)

\* C23: the one store outlives the sessions.  Only the dispatch of a command
\* changes it: the return of handle_client on a failed read, the wait in
\* accept and the start of the next session leave it as it is, and a session
\* that ends on a failed write leaves what its last command made of it.
C23_Step ==
    /\ pc # "dispatch" => storage' = storage
    /\ (pc = "dispatch" /\ pc' = "accept") =>
        IF ~Parsed.ok \/ Parsed.cmd.type \in ReadTypes \cup {"Ping"}
        THEN storage' = storage
        ELSE IF Parsed.cmd.type = "Insert"
        THEN \E id \in Uuids \ Keys(storage) :
                storage' = storage \cup {Entry(id, Parsed.cmd.values)}
        ELSE /\ Others(storage', Parsed.cmd.key) = Others(storage, Parsed.cmd.key)
             /\ VectorsOf(storage', Parsed.cmd.key) =
                  IF Parsed.cmd.type = "NamedInsert"
                  THEN {Parsed.cmd.values}
                  ELSE {}

C23_OneStoreAcrossSessions == [][C23_Step]_vars

\* A session has just been entered (nothing read, nothing answered yet)
\* over the two entries an earlier session left.
C23_Witness ==
    /\ pc = "top"
    /\ peer = "open"
    /\ command = <<>>
    /\ response = ""
    /\ Cardinality(storage) = 2

\* ------------------------------------------------------------- claims, dump
\* C24: a dump is always answered, with the success message or with the
\* error message that carries the I/O error; the store stays as it is and,
\* unless the write of the answer fails, the session goes on.
C24_Step ==
    Handles("Dump") =>
        /\ \/ response' = "Database dump successful: " \o command[2] \o "\n"
           \/ \E io \in DumpOutcomes \ {"ok"} :
                response' = "Error creating database dump: " \o IoErrorText(io) \o "\n"
        /\ (response' = "Database dump successful: " \o command[2] \o "\n")
              <=> (file' = Snapshot(storage))
        /\ storage' = storage
        /\ peer # "gone" => (pc' = "top" /\ peer' = peer)

C24_DumpAnswered == [][C24_Step]_vars

\* A dump that could not create its file has been answered with the error;
\* the session goes on over its store.
C24_Witness ==
    /\ pc = "top"
    /\ peer = "open"
    /\ command = <<"dump", "x">>
    /\ response = "Error creating database dump: Permission denied (os error 13)\n"
    /\ Cardinality(storage) = 2

\* C25: a dump that fails leaves at its path what was there before or a full
\* snapshot of the store.
C25_Step ==
    (Handles("Dump") /\ ~result'.ok) => file' \in {file, Snapshot(storage)}

C25_AtomicExport == [][C25_Step]_vars

\* ------------------------------------------------------- claims, the store
\* C26: an insert, its generated identifier not being a key of the store,
\* adds one entry under that identifier, returns the identifier and leaves
\* every other entry as it is.
C26_Step ==
    Handles("Insert") =>
        \E id \in Uuids \ Keys(storage) :
            /\ result' = Some(id)
            /\ VectorsOf(storage', id) = {Parsed.cmd.values}
            /\ Others(storage', id) = storage
            /\ Cardinality(storage') = Cardinality(storage) + 1

C26_GeneratedKeyInsert == [][C26_Step]_vars

\* An insert has added a third entry under a generated identifier.
C26_Witness ==
    /\ DispatchedType("Insert")
    /\ command = <<"insert", "x", "1">>
    /\ result = Some("u1")
    /\ VectorsOf(storage, "u1") = {<<1>>}
    /\ Cardinality(storage) = 3

\* The string holds a white space character.
HasBlank(k) == \E i \in 1..Len(k) : SubSeq(k, i, i) \in {" ", "\t", "\n", "\r"}

\* C27: every key of the store is a string that is not empty and holds no
\* white space, whatever line was read.
C27_KeysAreTokens == \A k \in Keys(storage) : k # "" /\ ~HasBlank(k)

\* A named_insert read as a raw line has stored its key.
C27_Witness ==
    /\ pc = "top"
    /\ command = <<"named_insert", "k", "1">>
    /\ VectorsOf(storage, "k") = {<<1>>}

\* ---------------------------------------------------------------- claims, knn
\* C28: every command that parses runs to completion: its dispatch ends with
\* a response handed to write_all, and the process goes on (the session at
\* the top of its loop or, the write having failed, main in accept).
C28_Step ==
    (pc = "dispatch" /\ Parsed.ok /\ pc' # "dispatch") => pc' \in {"top", "accept"}

C28_RunsToCompletion == [][C28_Step]_vars

\* C29: a knn on a present key with k >= 1 answers with at least one
\* neighbor, and the first one is at distance 0 from the vector of the key.
C29_Step ==
    (Handles("KNearestNeighbors") /\ Parsed.cmd.k >= 1) =>
        \A query \in VectorsOf(storage, Parsed.cmd.key) :
            /\ pc' # "aborted"
            /\ result'.some
            /\ Len(result'.val) >= 1
            /\ euclidean_distance(query, result'.val[1].vector) = 0

C29_QueryAmongNeighbors == [][C29_Step]_vars

\* -------------------------------------------------------- claims, extra tokens
\* The tokens a command needs, its word included.
Required == IF Spells("ping") THEN 1 ELSE 3

\* C30: a ping, knn, vadd, vsub, vscale or vcosine line with more tokens than
\* the command needs is parsed as the line cut after the tokens needed; a
\* get, remove or dump line with a token more than needed is refused, though
\* the line cut after its argument is a command.
C30_ExtraTokens ==
    LineRead =>
        /\ ((Spells("ping") \/ TwoArgumentWord) /\ Len(command) > Required) =>
                Parsed = parse_command(SubSeq(command, 1, Required))
        /\ (OneArgumentWord /\ Len(command) > 2) =>
                /\ ~Parsed.ok
                /\ parse_command(SubSeq(command, 1, 2)).ok

\* A vadd followed by one more token has been answered with the sum.
C30_Witness ==
    /\ pc = "top"
    /\ command = <<"vadd", "a", "A", "x">>
    /\ call = "vector_addition"
    /\ response = "Result: [1.0]\n"

\* ------------------------------------------------- claims, failed write
\* The commands that change the store.
MutatingTypes == {"Insert", "NamedInsert", "Remove"}

\* The command just dispatched is still in `command` until the top of the
\* loop clears it: at "accept" the session ended on the failed write of its
\* response, at "top" the response was written or the next session has been
\* entered.
Applied(type) == pc \in {"accept", "top"} /\ Parsed.ok /\ Parsed.cmd.type = type

\* What the command just dispatched made of the store is in the store.
C31_Kept ==
    /\ Applied("NamedInsert") =>
            map_get(storage, Parsed.cmd.key) = Some(Parsed.cmd.values)
    /\ Applied("Insert") =>
            /\ result.some
            /\ Entry(result.val, Parsed.cmd.values) \in storage
    /\ Applied("Remove") => Parsed.cmd.key \notin Keys(storage)

\* The failed write of "OK" ends the session in the step that changed the
\* store, and main, back in accept, hands the store on as it is.
C31_Step ==
    /\ (pc = "dispatch" /\ Parsed.ok /\ Parsed.cmd.type \in MutatingTypes
            /\ peer = "gone" /\ pc' # "dispatch") =>
            /\ pc' = "accept"
            /\ peer' = "none"
            /\ response' = "OK\n"
            /\ command' = command
    /\ pc = "accept" =>
            /\ storage' = storage
            /\ pc' = "top"
            /\ peer' = "open"

\* C31: an insert, named_insert or remove is applied to the store before its
\* "OK" is written; when that write fails the session ends with the change
\* kept, and the next connection is served from the store that holds it.
C31_AppliedBeforeFailedWrite == [](C31_Kept) /\ [][C31_Step]_vars

\* A session has ended on the failed write of the "OK" of a named_insert:
\* main is back in accept and the store of two entries holds the vector
\* under the key.
C31_Witness ==
    /\ pc = "accept"
    /\ peer = "none"
    /\ command = <<"named_insert", "a", "1">>
    /\ response = "OK\n"
    /\ Entry("a", <<1>>) \in storage
    /\ Cardinality(storage) = 2

====
